---- MODULE Spec2Model ----
(***************************************************************************)
(* Attendance recording of the MICE event tracker.                         *)
(*                                                                         *)
(* The POST /api/attendance handler (src/app/api/attendance/route.ts)      *)
(* resolves a student from a QR code, looks up the event, records a        *)
(* time-in or time-out through lib/supabase (recordTimeIn, recordTimeOut:  *)
(* a stored-procedure call with a direct-table fallback), sends a          *)
(* confirmation mail and marks it sent.  Every await of the handler is a   *)
(* point where another request may run, so each await is one action.       *)
(* The attendance_records table is a set of rows; the uniqueness of        *)
(* (student_id, event_id) is enforced where the database enforces it: in   *)
(* the insert and in the upsert's conflict test.                           *)
(*                                                                         *)
(* Further specifications share the state: SpecAdmin (one station while    *)
(* the administrator rewrites tokens), SpecStudents (createStudent,        *)
(* updateStudent, deleteStudent), SpecNoAnswer (an awaited call that is    *)
(* never answered), SpecPage (handleScan of the scanner page) and SpecCam  *)
(* (the webcam scanner component).                                         *)
(***************************************************************************)
EXTENDS Integers, FiniteSets, Sequences, TLC

\* ----------------------------------------------------------------- bounds

\* Largest value of the wall clock (timestamps are 1..MaxClock).
MaxClock == 2

\* Number of requests the scanning stations issue in one behaviour.
MaxReq == 2

\* Number of attendance requests the scanner page sends in one behaviour.
MaxScans == 2

\* Number of codes the webcam scanner component reports in one behaviour.
MaxDetections == 5

\* ------------------------------------------------------------- vocabulary

\* An absent timestamp (time_in / time_out are nullable columns).
Null == 0

\* Stations from which requests arrive; two are enough for every race.
Procs == {"p1", "p2"}

StudentIds == {"s1", "s2"}
EventIds == {"e1"}

\* A body field that is missing (undefined / empty): falsy in `!qrCode`.
Missing == ""

\* Values the scanner may put in the body.
QRInputs == {"q1", "q2", "qx", Missing}
EventInputs == {"e1", "ex", Missing}
ModeInputs == {"in", "out", "sideways", Missing}

NoStudent == "none"

\* The value of `data` when no row comes back (null).
NoRow ==
  [id |-> 0, student_id |-> NoStudent, event_id |-> "none", time_in |-> Null,
   time_out |-> Null, email_sent_in |-> FALSE, email_sent_out |-> FALSE]

NoReq == [qrCode |-> Missing, eventId |-> Missing, scanMode |-> Missing]

\* Ghost record of one request: which transition its ledger call was, whether
\* the pair had no record when the call began, whether the storage failed one
\* of its steps, whether it returned a row, how many times a mail was
\* attempted, whether markEmailSent returned without an error, and whether,
\* after its mail was sent, another request wrote the same timestamp of the
\* same pair.
NoHist ==
  [mode |-> "none", noRecord |-> FALSE, fault |-> FALSE, returned |-> FALSE,
   attempts |-> 0, marked |-> FALSE, overtaken |-> FALSE]


VARIABLES
  students,        \* the students table: rows [id, qr_code_data, issued]
  table,           \* the attendance_records table: a set of rows
  nextId,          \* the next generated attendance_records.id
  clock,           \* the latest reading of now() / new Date()
  reqCount,        \* requests issued so far
  pc,              \* per station: where its request stands
  req,             \* per station: the request body
  student,         \* per station: the resolved student's id
  record,          \* per station: the row recordTimeIn / recordTimeOut returned
  existingRecord,  \* per station: whether the fallback's select found a row
  ts,              \* per station: the fallback's new Date()
  resp,            \* per station: the response of the finished request
  hist,            \* ghost, per station: see NoHist
  okPairs,         \* ghost: the pairs for which a ledger call has succeeded
  lastWrite,       \* ghost: per pair, the timestamps the latest successful calls wrote
  \* the scanner page (app/scanner/page.tsx)
  render,          \* the render whose handleScan the running scanner calls
  scanResults,     \* the recent-scans list (React state), newest first
  inFlight,        \* the scans whose /api/attendance call has not returned
  started,         \* how many attendance requests the page has sent
  \* the webcam scanner component (components/QRScanner.tsx)
  isScanning,      \* the isScanning prop
  hasScanned,      \* the hasScanned state of the last committed render
  nextHasScanned,  \* the value the queued setHasScanned calls leave
  renderDue,       \* a state or prop change awaits its render
  interval,        \* the render whose scanQRCode the interval calls, or NoInterval
  depsSeen,        \* [isScanning, hasScanned] of the last effect run
  timers,          \* reset timers (setTimeout 3000) not yet fired
  detections,      \* how often onScan was called
  quiet            \* ghost: a code was reported and no reset timer has fired since

serverVars ==
  <<students, table, nextId, clock, reqCount, pc, req, student, record,
    existingRecord, ts, resp, hist, okPairs, lastWrite>>

pageVars == <<render, scanResults, inFlight, started>>

camVars ==
  <<isScanning, hasScanned, nextHasScanned, renderDue, interval, depsSeen,
    timers, detections, quiet>>

vars == <<serverVars, pageVars, camVars>>

Pairs == StudentIds \X EventIds

\* ------------------------------------------------- the database (part_004)

\* Mutant of Matches: the filter on student_id is forgotten.
MatchesEventOnly(r, s, e) == r.event_id = e

\* where student_id = p_student_id and event_id = p_event_id
Matches(r, s, e) == r.student_id = s /\ r.event_id = e

RowsOf(tbl, s, e) == {r \in tbl : Matches(r, s, e)}

\* Mutant of UniqueViolation: the table has no uniqueness constraint.
UniqueViolationOff(tbl, s, e) == FALSE

\* constraint unique_attendance_record unique (student_id, event_id): an
\* insert of (s, e) conflicts exactly when a row of that pair is there.
UniqueViolation(tbl, s, e) == RowsOf(tbl, s, e) # {}

\* What a call hands back: the table after it, and supabase's {data, error}.
Result(tbl, data, error) == [table |-> tbl, data |-> data, error |-> error]

\* A fresh row; the flags take the columns' default false.
NewRow(id, s, e, tin, tout) ==
  [id |-> id, student_id |-> s, event_id |-> e, time_in |-> tin,
   time_out |-> tout, email_sent_in |-> FALSE, email_sent_out |-> FALSE]

\* The single row a statement returns (returning * / .single()).
TheRow(rows) == IF rows = {} THEN NoRow ELSE CHOOSE r \in rows : TRUE

\* Mutant of record_time_in: the upsert written as delete-then-insert, which
\* replaces the pair's row by a fresh one.
record_time_inReplace(tbl, s, e, now, newId) ==
  LET row == NewRow(newId, s, e, now, Null)
  IN  Result((tbl \ RowsOf(tbl, s, e)) \cup {row}, row, FALSE)

\* insert ... on conflict (student_id, event_id)
\*   do update set time_in = now(), email_sent_in = false returning *
record_time_in(tbl, s, e, now, newId) ==
  IF UniqueViolation(tbl, s, e)
  THEN LET upd(r) == [r EXCEPT !.time_in = now, !.email_sent_in = FALSE]
           tbl2 == {IF Matches(r, s, e) THEN upd(r) ELSE r : r \in tbl}
       IN  Result(tbl2, TheRow(RowsOf(tbl2, s, e)), FALSE)
  ELSE LET row == NewRow(newId, s, e, now, Null)
       IN  Result(tbl \cup {row}, row, FALSE)

\* update ... set time_out = now(), email_sent_out = false where ... returning *
\* (no insert: with no row of the pair nothing is written and null comes back)
record_time_out(tbl, s, e, now) ==
  LET upd(r) == [r EXCEPT !.time_out = now, !.email_sent_out = FALSE]
      tbl2 == {IF Matches(r, s, e) THEN upd(r) ELSE r : r \in tbl}
  IN  Result(tbl2, TheRow(RowsOf(tbl2, s, e)), FALSE)

\* ------------------------------------------- lib/supabase (part_002) calls
\* `ok` is whether the storage answers the call; a call that is not answered
\* has no effect and comes back with an error.

\* supabase.rpc('record_time_in', ...)
RpcTimeIn(tbl, s, e, now, newId, ok) ==
  IF ok THEN record_time_in(tbl, s, e, now, newId) ELSE Result(tbl, NoRow, TRUE)

\* supabase.rpc('record_time_out', ...)
RpcTimeOut(tbl, s, e, now, ok) ==
  IF ok THEN record_time_out(tbl, s, e, now) ELSE Result(tbl, NoRow, TRUE)

\* if (error) throw ...; if (!data) throw ...; return data
RpcReturned(res) == ~res.error /\ res.data # NoRow

\* .select('*').eq('student_id', ..).eq('event_id', ..).maybeSingle(); the
\* code reads `data` only, so a failed select looks like "no record".
SelectExisting(tbl, s, e, ok) ==
  IF ok /\ Cardinality(RowsOf(tbl, s, e)) = 1 THEN TheRow(RowsOf(tbl, s, e)) ELSE NoRow

\* .update({ time_in: <t> }).eq(..).eq(..).select().single()
UpdateTimeIn(tbl, s, e, t, ok) ==
  IF ~ok THEN Result(tbl, NoRow, TRUE)
  ELSE LET tbl2 == {IF Matches(r, s, e) THEN [r EXCEPT !.time_in = t] ELSE r : r \in tbl}
           rows == RowsOf(tbl2, s, e)
       IN  IF Cardinality(rows) = 1 THEN Result(tbl2, TheRow(rows), FALSE)
           ELSE Result(tbl2, NoRow, TRUE)

\* Mutant of UpdateTimeOut: the update pasted from recordTimeIn still names
\* the time_in column.
UpdateTimeOutPasted(tbl, s, e, t, ok) ==
  IF ~ok THEN Result(tbl, NoRow, TRUE)
  ELSE LET tbl2 == {IF r.student_id = s /\ r.event_id = e
                    THEN [r EXCEPT !.time_in = t] ELSE r : r \in tbl}
           rows == {r \in tbl2 : r.student_id = s /\ r.event_id = e}
       IN  IF Cardinality(rows) = 1 THEN Result(tbl2, CHOOSE r \in rows : TRUE, FALSE)
           ELSE Result(tbl2, NoRow, TRUE)

\* .update({ time_out: <t> }).eq(..).eq(..).select().single()
UpdateTimeOut(tbl, s, e, t, ok) ==
  IF ~ok THEN Result(tbl, NoRow, TRUE)
  ELSE LET tbl2 == {IF Matches(r, s, e) THEN [r EXCEPT !.time_out = t] ELSE r : r \in tbl}
           rows == RowsOf(tbl2, s, e)
       IN  IF Cardinality(rows) = 1 THEN Result(tbl2, TheRow(rows), FALSE)
           ELSE Result(tbl2, NoRow, TRUE)

\* .insert({student_id, event_id, time_in | time_out, email_sent_in: false,
\*          email_sent_out: false}).select().single()
InsertRow(tbl, row, ok) ==
  IF ~ok \/ UniqueViolation(tbl, row.student_id, row.event_id)
  THEN Result(tbl, NoRow, TRUE)
  ELSE Result(tbl \cup {row}, row, FALSE)

\* The fallback branch of recordTimeIn after its select.
FallbackTimeIn(tbl, s, e, t, newId, existing, ok) ==
  IF existing THEN UpdateTimeIn(tbl, s, e, t, ok)
  ELSE InsertRow(tbl, NewRow(newId, s, e, t, Null), ok)

\* Mutant of FallbackTimeOut: the new row is inserted bare and its time_out
\* set by a second statement, so a failure between the two leaves half a record.
FallbackTimeOutTwoStep(tbl, s, e, t, newId, existing, ok) ==
  IF existing THEN UpdateTimeOut(tbl, s, e, t, ok)
  ELSE IF UniqueViolation(tbl, s, e) THEN Result(tbl, NoRow, TRUE)
  ELSE IF ok THEN Result(tbl \cup {NewRow(newId, s, e, Null, t)},
                         NewRow(newId, s, e, Null, t), FALSE)
  ELSE Result(tbl \cup {NewRow(newId, s, e, Null, Null)}, NoRow, TRUE)

\* The fallback branch of recordTimeOut after its select.
FallbackTimeOut(tbl, s, e, t, newId, existing, ok) ==
  IF existing THEN UpdateTimeOut(tbl, s, e, t, ok)
  ELSE InsertRow(tbl, NewRow(newId, s, e, Null, t), ok)

\* Mutant of UpdateEmailSent: the two columns are exchanged.
UpdateEmailSentSwapped(tbl, id, type, ok) ==
  IF ~ok THEN Result(tbl, NoRow, TRUE)
  ELSE LET upd(r) == IF type = "in" THEN [r EXCEPT !.email_sent_out = TRUE]
                     ELSE [r EXCEPT !.email_sent_in = TRUE]
       IN  Result({IF r.id = id THEN upd(r) ELSE r : r \in tbl}, NoRow, FALSE)

\* markEmailSent: .update({email_sent_in | email_sent_out: true}).eq('id', recordId)
UpdateEmailSent(tbl, id, type, ok) ==
  IF ~ok THEN Result(tbl, NoRow, TRUE)
  ELSE LET upd(r) == IF type = "in" THEN [r EXCEPT !.email_sent_in = TRUE]
                     ELSE [r EXCEPT !.email_sent_out = TRUE]
       IN  Result({IF r.id = id THEN upd(r) ELSE r : r \in tbl}, NoRow, FALSE)

\* Mutant of getStudentByQRCode: the filter is lost and the first student of
\* the table is taken.
getStudentByQRCodeAny(tbl, code, ok) ==
  IF ok /\ tbl # {}
  THEN [data |-> (CHOOSE r \in tbl : TRUE).id, error |-> FALSE]
  ELSE [data |-> NoStudent, error |-> TRUE]

\* A students row as createStudent inserts it.  `issued` is a ghost column:
\* the token createStudent generated for the row.
StudentRow(id, code) == [id |-> id, qr_code_data |-> code, issued |-> code]

\* createStudent: insert([{ name, email, qr_code_data: qrCodeData }]) with the
\* id the database generates.
createStudent(tbl, id, code, ok) ==
  IF ok THEN tbl \cup {StudentRow(id, code)} ELSE tbl

\* deleteStudent: .delete().eq('id', id) on students
deleteStudent(tbl, id, ok) ==
  IF ok THEN {r \in tbl : r.id # id} ELSE tbl

\* attendance_records.student_id references students(id) on delete cascade
CascadeDelete(tbl, studentsAfter) ==
  {r \in tbl : r.student_id \in {x.id : x \in studentsAfter}}

\* updateStudent(id, updates) with updates.qr_code_data = code:
\* .update(updates).eq('id', id).  The students table has no constraint on
\* qr_code_data (only email is unique), so any token can be written.
updateStudent(tbl, id, code, ok) ==
  IF ok THEN {IF r.id = id THEN [r EXCEPT !.qr_code_data = code] ELSE r : r \in tbl}
  ELSE tbl

\* getStudentByQRCode: .select('*').eq('qr_code_data', code).single()
getStudentByQRCode(tbl, code, ok) ==
  LET rows == {r \in tbl : r.qr_code_data = code}
  IN  IF ok /\ Cardinality(rows) = 1
      THEN [data |-> (CHOOSE r \in rows : TRUE).id, error |-> FALSE]
      ELSE [data |-> NoStudent, error |-> TRUE]

\* getEventById: .select('*').eq('id', id).single()
getEventById(id, ok) ==
  IF ok /\ id \in EventIds THEN [data |-> id, error |-> FALSE]
  ELSE [data |-> "none", error |-> TRUE]

\* ------------------------------------- the route's decisions (route.ts)

\* Mutant of HasMissingField: scanMode is not looked at.
HasMissingFieldTwo(body) == body.qrCode = Missing \/ body.eventId = Missing

\* if (!qrCode || !eventId || !scanMode)
HasMissingField(body) ==
  body.qrCode = Missing \/ body.eventId = Missing \/ body.scanMode = Missing

\* if (scanMode === 'in') ... else if (scanMode === 'out') ... else 400
ValidMode(m) == m \in {"in", "out"}

\* try { student = await getStudentByQRCode(qrCode) } catch { return 404 }
NextAfterResolve(threw) == IF threw THEN "done" ELSE "getEvent"

\* Mutant of NextAfterEvent: the catch logs the error and falls through.
NextAfterEventSwallowed(threw) == "record"

\* try { event = await getEventById(eventId) } catch { return 404 }
NextAfterEvent(threw) == IF threw THEN "done" ELSE "record"

\* Mutant of NextAfterRecord: the catch logs the error and falls through.
NextAfterRecordSwallowed(threw) == "send"

\* try { record = await recordTimeIn/Out(..) } catch { return 500 }: a
\* ledger call that threw ends the request, one that returned goes on to mail.
NextAfterRecord(threw) == IF threw THEN "done" ELSE "send"

\* Mutant of NextAfterSend: a send that threw is tried again.
NextAfterSendRetry(threw) == IF threw THEN "send" ELSE "mark"

\* try { await sendAttendanceConfirmation(..); await markEmailSent(..) }
\* catch { log }: a send that threw skips markEmailSent.
NextAfterSend(threw) == IF threw THEN "done" ELSE "mark"

\* return NextResponse.json({ success: true, student, scanMode, timestamp }):
\* the payload after the try/catch around the mail.
\* Nothing of what the catch saw (emailError) goes into it.
SuccessResponse(emailError) == "200_success"

\* ----------------------------------------------------------------- state

\* The row of a student who checked in at time 1 and was sent the mail: what
\* one complete time-in request (record_time_in, sendMail, markEmailSent)
\* leaves in an empty table.
CheckedIn == [NewRow(1, "s1", "e1", 1, Null) EXCEPT !.email_sent_in = TRUE]

\* The database outlives the server: a behaviour starts on the empty table or
\* on the table an earlier complete time-in request left.
ServerInit ==
  /\ students = {StudentRow("s1", "q1"), StudentRow("s2", "q2")}
  /\ table \in {{}, {CheckedIn}}
  /\ nextId = Cardinality(table) + 1
  /\ clock = 1
  /\ reqCount = 0
  /\ pc = [p \in Procs |-> "idle"]
  /\ req = [p \in Procs |-> NoReq]
  /\ student = [p \in Procs |-> NoStudent]
  /\ record = [p \in Procs |-> NoRow]
  /\ existingRecord = [p \in Procs |-> FALSE]
  /\ ts = [p \in Procs |-> Null]
  /\ resp = [p \in Procs |-> "none"]
  /\ hist = [p \in Procs |-> NoHist]
  /\ okPairs = {<<r.student_id, r.event_id>> : r \in table}
  /\ lastWrite = [k \in Pairs |->
       [in |-> TheRow(RowsOf(table, k[1], k[2])).time_in,
        out |-> TheRow(RowsOf(table, k[1], k[2])).time_out]]

\* The scanner page before anything was scanned, with no scanner running.
PageOff ==
  /\ render = [scanning |-> FALSE, selectedEvent |-> Missing, scanResults |-> <<>>]
  /\ scanResults = <<>>
  /\ inFlight = {}
  /\ started = 0

\* No interval is set (scanIntervalRef.current === null).
NoInterval == [set |-> FALSE, isScanning |-> FALSE, hasScanned |-> FALSE]

\* The webcam scanner component as mounted with isScanning = false.
CamOff ==
  /\ isScanning = FALSE
  /\ hasScanned = FALSE
  /\ nextHasScanned = FALSE
  /\ renderDue = FALSE
  /\ interval = NoInterval
  /\ depsSeen = [isScanning |-> FALSE, hasScanned |-> FALSE]
  /\ timers = 0
  /\ detections = 0
  /\ quiet = FALSE

Init == ServerInit /\ PageOff /\ CamOff

\* What now() / new Date() may return: time does not run backwards.
Readings == clock .. MaxClock

\* ghost bookkeeping of a ledger call that returned a row
Succeeded(s, e, kind, at) ==
  /\ okPairs' = okPairs \cup {<<s, e>>}
  /\ lastWrite' = [lastWrite EXCEPT ![<<s, e>>][kind] = at]

NoLedgerChange == UNCHANGED <<table, nextId, okPairs, lastWrite>>

\* ghost bookkeeping: station p's ledger call has written; the requests of
\* the same pair and mode whose mail is already out are overtaken by it
Overtake(h, p, wrote) ==
  [q \in Procs |->
     IF /\ wrote /\ q # p /\ pc[q] = "mark"
        /\ student[q] = student[p] /\ req[q].eventId = req[p].eventId
        /\ req[q].scanMode = req[p].scanMode
     THEN [h[q] EXCEPT !.overtaken = TRUE]
     ELSE h[q]]

\* the id generator moves on when a row was inserted
IdAfter(tbl2) == IF Cardinality(tbl2) > Cardinality(table) THEN nextId + 1 ELSE nextId

\* One step of station p's request: where it goes next and what its locals
\* become.  A request that has answered keeps its response; its locals are dead.
Step(p, nextPc, response, body, st, rec, ex, t) ==
  LET done == nextPc = "done"
  IN  /\ pc' = [pc EXCEPT ![p] = nextPc]
      /\ resp' = [resp EXCEPT ![p] = IF done THEN response ELSE "none"]
      /\ req' = [req EXCEPT ![p] = IF done THEN NoReq ELSE body]
      /\ student' = [student EXCEPT ![p] = IF done THEN NoStudent ELSE st]
      /\ record' = [record EXCEPT ![p] = IF done THEN NoRow ELSE rec]
      /\ existingRecord' = [existingRecord EXCEPT ![p] = IF done THEN FALSE ELSE ex]
      /\ ts' = [ts EXCEPT ![p] = IF done THEN Null ELSE t]
      /\ UNCHANGED <<pageVars, camVars>>

\* POST, lines 11-21: the body arrives and is checked for its three fields.
StartRequest(p) ==
  /\ pc[p] \in {"idle", "done"}
  /\ reqCount < MaxReq
  /\ reqCount' = reqCount + 1
  /\ \E qr \in QRInputs, ev \in EventInputs, m \in ModeInputs :
       LET body == [qrCode |-> qr, eventId |-> ev, scanMode |-> m]
       IN  Step(p, IF HasMissingField(body) THEN "done" ELSE "getStudent",
                "400_missing", body, NoStudent, NoRow, FALSE, Null)
  /\ hist' = [hist EXCEPT ![p] = NoHist]
  /\ UNCHANGED <<students, clock>>
  /\ NoLedgerChange

\* POST, lines 23-33: student = await getStudentByQRCode(qrCode)
GetStudent(p) ==
  /\ pc[p] = "getStudent"
  /\ \E ok \in BOOLEAN :
       LET res == getStudentByQRCode(students, req[p].qrCode, ok)
       IN  Step(p, NextAfterResolve(res.error), "404_student",
                req[p], res.data, NoRow, FALSE, Null)
  /\ UNCHANGED <<students, clock, reqCount, hist>>
  /\ NoLedgerChange

\* POST, lines 35-45: event = await getEventById(eventId)
GetEvent(p) ==
  /\ pc[p] = "getEvent"
  /\ \E ok \in BOOLEAN :
       LET res == getEventById(req[p].eventId, ok)
       IN  Step(p, NextAfterEvent(res.error), "404_event",
                req[p], student[p], NoRow, FALSE, Null)
  /\ UNCHANGED <<students, clock, reqCount, hist>>
  /\ NoLedgerChange

\* POST, lines 56-60: a scan mode that is neither 'in' nor 'out'
InvalidMode(p) ==
  /\ pc[p] = "record"
  /\ ~ValidMode(req[p].scanMode)
  /\ Step(p, "done", "400_mode", req[p], student[p], NoRow, FALSE, Null)
  /\ UNCHANGED <<students, clock, reqCount, hist>>
  /\ NoLedgerChange

\* recordTimeIn / recordTimeOut, lines 180-198 / 253-271: the stored
\* procedure runs; an error or a null result is thrown into the fallback.
RecordRpc(p) ==
  /\ pc[p] = "record"
  /\ ValidMode(req[p].scanMode)
  /\ \E ok \in BOOLEAN, now \in Readings :
       LET s == student[p]
           e == req[p].eventId
           m == req[p].scanMode
           existed == RowsOf(table, s, e) # {}
           res == IF m = "in" THEN RpcTimeIn(table, s, e, now, nextId, ok)
                  ELSE RpcTimeOut(table, s, e, now, ok)
           h == [mode |-> m, noRecord |-> ~existed, fault |-> ~ok,
                 returned |-> RpcReturned(res), attempts |-> 0,
                 marked |-> FALSE, overtaken |-> FALSE]
       IN  /\ clock' = now
           /\ table' = res.table
           /\ nextId' = IdAfter(res.table)
           /\ IF RpcReturned(res)
              THEN /\ Step(p, "send", "none", req[p], s, res.data, FALSE, Null)
                   /\ Succeeded(s, e, m, now)
              ELSE /\ Step(p, "fbSelect", "none", req[p], s, NoRow, FALSE, Null)
                   /\ UNCHANGED <<okPairs, lastWrite>>
           /\ hist' = Overtake([hist EXCEPT ![p] = h], p, RpcReturned(res))
  /\ UNCHANGED <<students, reqCount>>

\* the fallback's select, lines 207-212 / 280-285, and the new Date() of
\* the write it then builds
FallbackSelect(p) ==
  /\ pc[p] = "fbSelect"
  /\ \E ok \in BOOLEAN, now \in Readings :
       /\ Step(p, "fbWrite", "none", req[p], student[p], NoRow,
               SelectExisting(table, student[p], req[p].eventId, ok) # NoRow, now)
       /\ hist' = [hist EXCEPT ![p].fault = @ \/ ~ok]
       /\ clock' = now
  /\ UNCHANGED <<students, reqCount>>
  /\ NoLedgerChange

\* the fallback's update or insert, lines 214-246 / 287-319
FallbackWrite(p) ==
  /\ pc[p] = "fbWrite"
  /\ \E ok \in BOOLEAN :
       LET s == student[p]
           e == req[p].eventId
           m == req[p].scanMode
           res == IF m = "in"
                  THEN FallbackTimeIn(table, s, e, ts[p], nextId, existingRecord[p], ok)
                  ELSE FallbackTimeOut(table, s, e, ts[p], nextId, existingRecord[p], ok)
       IN  /\ table' = res.table
           /\ nextId' = IdAfter(res.table)
           /\ Step(p, NextAfterRecord(res.error), "500_record", req[p], s, res.data,
                   FALSE, Null)
           /\ hist' = Overtake([hist EXCEPT ![p].fault = @ \/ ~ok,
                                            ![p].returned = ~res.error],
                                p, ~res.error)
           /\ IF res.error THEN UNCHANGED <<okPairs, lastWrite>>
              ELSE Succeeded(s, e, m, ts[p])
  /\ UNCHANGED <<students, clock, reqCount>>

\* POST, line 77, and email.ts 102-117: transporter.sendMail succeeds or throws
SendEmail(p) ==
  /\ pc[p] = "send"
  /\ \E ok \in BOOLEAN :
       /\ Step(p, NextAfterSend(~ok), SuccessResponse(~ok), req[p], student[p],
               record[p], FALSE, Null)
  /\ hist' = [hist EXCEPT ![p].attempts = @ + 1]
  /\ UNCHANGED <<students, clock, reqCount>>
  /\ NoLedgerChange

\* POST, lines 78-92: await markEmailSent(record.id, scanMode); its error is
\* caught and the success payload is returned either way
MarkEmailSent(p) ==
  /\ pc[p] = "mark"
  /\ \E ok \in BOOLEAN :
       LET res == UpdateEmailSent(table, record[p].id, req[p].scanMode, ok)
       IN  /\ table' = res.table
           /\ hist' = [hist EXCEPT ![p].marked = ~res.error]
           /\ Step(p, "done", SuccessResponse(res.error), req[p], student[p],
                   record[p], FALSE, Null)
  /\ UNCHANGED <<students, nextId, clock, reqCount, okPairs, lastWrite>>

Next ==
  \/ \E p \in Procs : StartRequest(p)
  \/ \E p \in Procs : GetStudent(p)
  \/ \E p \in Procs : GetEvent(p)
  \/ \E p \in Procs : InvalidMode(p)
  \/ \E p \in Procs : RecordRpc(p)
  \/ \E p \in Procs : FallbackSelect(p)
  \/ \E p \in Procs : FallbackWrite(p)
  \/ \E p \in Procs : SendEmail(p)
  \/ \E p \in Procs : MarkEmailSent(p)

Spec == Init /\ [][Next]_vars

\* ------------------------------------- one station and the administrator

\* Tokens a student row may carry.
Tokens == QRInputs \ {Missing}

\* The administrator rewrites a student's token through updateStudent.
UpdateStudent ==
  /\ \E id \in StudentIds, code \in Tokens, ok \in BOOLEAN :
       students' = updateStudent(students, id, code, ok)
  /\ UNCHANGED <<clock, reqCount, pc, req, student, record, existingRecord, ts,
                 resp, hist, pageVars, camVars>>
  /\ NoLedgerChange

\* The station whose requests run while the students table is edited.
Station == "p1"

NextAdmin ==
  \/ UpdateStudent
  \/ StartRequest(Station)
  \/ GetStudent(Station)
  \/ GetEvent(Station)
  \/ InvalidMode(Station)
  \/ RecordRpc(Station)
  \/ FallbackSelect(Station)
  \/ FallbackWrite(Station)
  \/ SendEmail(Station)
  \/ MarkEmailSent(Station)

SpecAdmin == Init /\ [][NextAdmin]_vars

\* ------------------------------------------- the administrator's CRUD

\* uuid_generate_v4() and crypto.randomUUID(): a value no row carries.
FreshIds == StudentIds \ {r.id : r \in students}
FreshTokens == Tokens \ ({r.qr_code_data : r \in students} \cup {r.issued : r \in students})

\* what the station and the clock hold; the administrator touches none of it
Stations ==
  <<clock, reqCount, pc, req, student, record, existingRecord, ts, resp, hist,
    pageVars, camVars>>

CreateStudent ==
  /\ \E id \in FreshIds, code \in FreshTokens, ok \in BOOLEAN :
       students' = createStudent(students, id, code, ok)
  /\ UNCHANGED Stations
  /\ NoLedgerChange

DeleteStudent ==
  /\ \E id \in StudentIds, ok \in BOOLEAN :
       /\ students' = deleteStudent(students, id, ok)
       /\ table' = CascadeDelete(table, students')
       /\ okPairs' = {k \in okPairs : k[1] \in {x.id : x \in students'}}
       /\ lastWrite' = [k \in Pairs |->
            IF k[1] \in {x.id : x \in students'} THEN lastWrite[k]
            ELSE [in |-> Null, out |-> Null]]
  /\ UNCHANGED nextId
  /\ UNCHANGED Stations

NextStudents ==
  \/ CreateStudent
  \/ UpdateStudent
  \/ DeleteStudent

SpecStudents == Init /\ [][NextStudents]_vars

\* ------------------------------------ the scanner page (scanner/page.tsx)
\* handleScan reads scanning, selectedEvent and scanResults of the render it
\* was defined in (they are consts of that render); the scanner is handed one
\* callback at start() and calls the handleScan of that render for every
\* decoded frame.  The render is an input here: any render the component
\* function can be run with.

\* scanResults.slice(0, 9): the entries kept below a new head
ListKeep == 9
ListLimit == ListKeep + 1

\* entries of the recent-scans list; n tells the scans apart
Entry(kind, n) == [kind |-> kind, n |-> n]
Placeholder(n) == Entry("processing", n)

\* list.slice(0, k) and list.slice(1)
Take(list, k) == SubSeq(list, 1, IF Len(list) < k THEN Len(list) ELSE k)
Rest(list) == SubSeq(list, 2, Len(list))
Elements(list) == {list[i] : i \in 1 .. Len(list)}

\* if (!data || !selectedEvent || !scanning) return
NotScannable(r, data) == data = Missing \/ r.selectedEvent = Missing \/ ~r.scanning

\* lastScan && lastScan.message === 'Processing QR code...'
AlreadyProcessing(r) ==
  Len(r.scanResults) > 0 /\ r.scanResults[1].kind = "processing"

\* setScanResults([{Processing}, ...scanResults.slice(0, 9)])
ProcessingList(r, n) == <<Placeholder(n)>> \o Take(r.scanResults, ListKeep)

\* setScanResults([{result}, ...scanResults.slice(0, 9).filter((_, i) => i !== 0)])
SuccessList(r, n) == <<Entry("ok", n)>> \o Rest(Take(r.scanResults, ListKeep))

\* filteredResults = scanResults[0] is the placeholder ? scanResults.slice(1)
\* : scanResults; setScanResults([{error}, ...filteredResults.slice(0, 9)])
ErrorList(r, n) ==
  LET filteredResults == IF AlreadyProcessing(r) THEN Rest(r.scanResults)
                         ELSE r.scanResults
  IN  <<Entry("error", n)>> \o Take(filteredResults, ListKeep)

\* lists a render may hold: k earlier results, newest first, or the same
\* below a placeholder
Earlier(k) == [i \in 1 .. k |-> Entry("ok", k + 1 - i)]
Renders ==
  [scanning : BOOLEAN, selectedEvent : {Missing, "e1"},
   scanResults : {Earlier(k) : k \in 0 .. ListLimit}
                 \cup {<<Placeholder(0)>> \o Earlier(k) : k \in 0 .. ListKeep}]

PageAny ==
  /\ render \in Renders
  /\ scanResults = render.scanResults
  /\ inFlight = {}
  /\ started = 0

\* the decode callback: (decodedText) => { handleScan(decodedText) }, up to
\* the fetch
Decode ==
  /\ started < MaxScans
  /\ \E data \in {"q1", Missing} :
       LET n == Len(render.scanResults) + started + 1
       IN  IF NotScannable(render, data) \/ AlreadyProcessing(render)
           THEN UNCHANGED <<scanResults, inFlight, started>>
           ELSE /\ scanResults' = ProcessingList(render, n)
                /\ inFlight' = inFlight \cup {n}
                /\ started' = started + 1
  /\ UNCHANGED <<render, serverVars, camVars>>

\* the fetch of scan n returns: response.ok, or an error status / a throw
Respond ==
  /\ \E n \in inFlight, ok \in BOOLEAN :
       /\ scanResults' = IF ok THEN SuccessList(render, n) ELSE ErrorList(render, n)
       /\ inFlight' = inFlight \ {n}
  /\ UNCHANGED <<render, started, serverVars, camVars>>

NextPage ==
  \/ Decode
  \/ Respond

\* the page with any render, the server and the database at rest
InitPage == ServerInit /\ table = {} /\ PageAny /\ CamOff

SpecPage == InitPage /\ [][NextPage]_vars

\* -------------------- the webcam scanner component (components/QRScanner.tsx)
\* A setState call queues a value; the render that follows commits it and runs
\* the effect when one of its dependencies [isScanning, hasScanned] changed.
\* The render is taken before the next timer callback runs.

\* setHasScanned(v)
SetHasScanned(v) ==
  /\ nextHasScanned' = v
  /\ renderDue' = (renderDue \/ v # hasScanned)

\* the parent changes the isScanning prop
SetScanning ==
  /\ ~renderDue
  /\ isScanning' = ~isScanning
  /\ renderDue' = TRUE
  /\ quiet' = (quiet /\ isScanning)
  /\ UNCHANGED <<hasScanned, nextHasScanned, interval, depsSeen, timers, detections>>
  /\ UNCHANGED <<serverVars, pageVars>>

\* the render commits, and useEffect(..., [isScanning, hasScanned]) runs:
\* the cleanup clears the interval, then with isScanning a new interval is
\* set on this render's scanQRCode and setHasScanned(false) is called
Commit ==
  /\ renderDue
  /\ hasScanned' = nextHasScanned
  /\ LET deps == [isScanning |-> isScanning, hasScanned |-> nextHasScanned]
     IN  IF deps = depsSeen
         THEN /\ renderDue' = FALSE
              /\ UNCHANGED <<nextHasScanned, interval, depsSeen>>
         ELSE /\ depsSeen' = deps
              /\ interval' = IF isScanning
                             THEN [set |-> TRUE, isScanning |-> isScanning,
                                   hasScanned |-> nextHasScanned]
                             ELSE NoInterval
              /\ nextHasScanned' = (IF isScanning THEN FALSE ELSE nextHasScanned)
              /\ renderDue' = (isScanning /\ nextHasScanned)
  /\ UNCHANGED <<isScanning, timers, detections, quiet>>
  /\ UNCHANGED <<serverVars, pageVars>>

\* a tick of setInterval(scanQRCode, 200): scanQRCode of the interval's render
\* looks at a frame that shows a code or does not
Tick ==
  /\ interval.set
  /\ ~renderDue
  /\ detections < MaxDetections
  /\ \E code \in BOOLEAN :
       IF ~interval.isScanning \/ interval.hasScanned \/ ~code
       THEN UNCHANGED camVars
       ELSE /\ detections' = detections + 1
            /\ SetHasScanned(TRUE)
            /\ timers' = timers + 1
            /\ quiet' = TRUE
            /\ UNCHANGED <<isScanning, hasScanned, interval, depsSeen>>
  /\ UNCHANGED <<serverVars, pageVars>>

\* setTimeout(() => setHasScanned(false), 3000) fires
ResetTimer ==
  /\ timers > 0
  /\ ~renderDue
  /\ timers' = timers - 1
  /\ SetHasScanned(FALSE)
  /\ quiet' = FALSE
  /\ UNCHANGED <<isScanning, hasScanned, interval, depsSeen, detections>>
  /\ UNCHANGED <<serverVars, pageVars>>

NextCam ==
  \/ SetScanning
  \/ Commit
  \/ Tick
  \/ ResetTimer

\* the component as mounted, the server and the database at rest
InitCam == ServerInit /\ table = {} /\ PageOff /\ CamOff

SpecCam == InitCam /\ [][NextCam]_vars

\* --------------------------------- one station and a call never answered

\* The positions at which the handler awaits the database or the mail server.
Awaiting(p) ==
  \/ pc[p] \in {"getStudent", "getEvent", "fbSelect", "fbWrite", "send", "mark"}
  \/ pc[p] = "record" /\ ValidMode(req[p].scanMode)

\* The awaited call is never answered.  The handler passes no timeout and no
\* abort signal to supabase or to the transporter and races no timer against
\* them, so nothing in the program resumes the request: it waits for good.
NoAnswer(p) ==
  /\ Awaiting(p)
  /\ pc' = [pc EXCEPT ![p] = "waiting"]
  /\ UNCHANGED <<students, clock, reqCount, req, student, record, existingRecord,
                 ts, resp, hist, pageVars, camVars>>
  /\ NoLedgerChange

\* The continuation of station p's request once its awaited call is answered.
Handler(p) ==
  \/ GetStudent(p)
  \/ GetEvent(p)
  \/ InvalidMode(p)
  \/ RecordRpc(p)
  \/ FallbackSelect(p)
  \/ FallbackWrite(p)
  \/ SendEmail(p)
  \/ MarkEmailSent(p)

NextNoAnswer ==
  \/ NoAnswer(Station)
  \/ StartRequest(Station)
  \/ GetStudent(Station)
  \/ GetEvent(Station)
  \/ InvalidMode(Station)
  \/ RecordRpc(Station)
  \/ FallbackSelect(Station)
  \/ FallbackWrite(Station)
  \/ SendEmail(Station)
  \/ MarkEmailSent(Station)

\* The event loop runs a continuation that is ready: a request whose awaited
\* call has answered does take its next step.
SpecNoAnswer == Init /\ [][NextNoAnswer]_vars /\ WF_vars(Handler(Station))

\* ------------------------------------------------------------ properties

\* the pair a station's request is about, and the flag of a scan mode
PairRows(tbl, p) == RowsOf(tbl, student[p], req[p].eventId)
Flag(r, m) == IF m = "in" THEN r.email_sent_in ELSE r.email_sent_out

\* station p takes a step of its ledger call (the stored procedure or the
\* fallback's write)
LedgerStep(p) == pc[p] \in {"record", "fbWrite"} /\ pc'[p] # pc[p]

\* C1: in every reachable state the table holds at most one row per
\* (student_id, event_id), and exactly one for a pair for which a
\* recordTimeIn / recordTimeOut call has returned, on either path.
C1_OneRowPerPair ==
  \A k \in Pairs :
    /\ Cardinality(RowsOf(table, k[1], k[2])) <= 1
    /\ k \in okPairs => Cardinality(RowsOf(table, k[1], k[2])) = 1

\* C1 witness: two first scans of a pair raced through the fallback; the
\* second insert was rejected by the constraint and one row stands.
C1_Witness ==
  \E p \in Procs :
    /\ resp[p] = "500_record" /\ hist[p].noRecord /\ ~hist[p].fault
    /\ okPairs # {}

\* C2: the stored time_in (time_out) of every pair is the timestamp the most
\* recent successful recordTimeIn (recordTimeOut) for that pair wrote; calls
\* for other pairs do not change it.
C2_LastWriteWins ==
  \A k \in Pairs :
    LET rows == RowsOf(table, k[1], k[2])
    IN  IF rows = {} THEN lastWrite[k] = [in |-> Null, out |-> Null]
        ELSE \A r \in rows : r.time_in = lastWrite[k].in /\ r.time_out = lastWrite[k].out

\* C2 witness: a pair's time_in was written twice (1, then a later reading)
\* while the other student has a record of their own.
C2_Witness ==
  \E r1, r2 \in table :
    /\ r1.student_id = "s1" /\ r1.time_in > 1 /\ lastWrite[<<"s1", "e1">>].in = r1.time_in
    /\ r2.student_id = "s2"

\* C3: a step of recordTimeIn leaves the time_out of every row as it was, and
\* a step of recordTimeOut leaves every time_in as it was, on both paths.
C3_OtherTimestampKept ==
  [][\A p \in Procs :
       LedgerStep(p) =>
         \A r \in table : \E r2 \in table' :
           /\ r2.id = r.id
           /\ req[p].scanMode = "in" => r2.time_out = r.time_out
           /\ req[p].scanMode = "out" => r2.time_in = r.time_in]_vars

\* C3 witness: a recordTimeIn has just returned for a pair whose time_out was
\* already set, and the returned row still carries it.
C3_Witness ==
  \E p \in Procs :
    /\ pc[p] = "send" /\ req[p].scanMode = "in"
    /\ record[p].time_out # Null /\ record[p] \in table

\* C4 (as claimed): whenever recordTimeIn (recordTimeOut) returns for a pair
\* that already had a record, the returned row and the stored row have
\* email_sent_in (email_sent_out) = false, on either path.
C4_FlagResetOnRewrite ==
  [][\A p \in Procs :
       (LedgerStep(p) /\ pc'[p] = "send" /\ PairRows(table, p) # {}) =>
         /\ ~Flag(record'[p], req[p].scanMode)
         /\ \A r \in PairRows(table', p) : ~Flag(r, req[p].scanMode)]_vars

\* C5 (as claimed): a recordTimeOut call that begins on a pair with no record
\* and whose storage calls are all answered succeeds, and the row it returns
\* has time_out set.
C5_FirstExitSucceeds ==
  \A p \in Procs :
    (hist[p].mode = "out" /\ hist[p].noRecord /\ ~hist[p].fault) =>
      /\ pc[p] = "done" => resp[p] = "200_success"
      /\ pc[p] \in {"send", "mark"} => record[p].time_out # Null

\* C6 (as claimed): when the table is as a recordTimeIn of a pair left it (the
\* row that call returned is the stored row), a second recordTimeIn of the
\* pair that writes the same timestamp leaves the whole table unchanged.
C6_TimeInIdempotent ==
  [][\A p, q \in Procs :
       ( /\ q # p /\ pc[q] = "send" /\ req[q].scanMode = "in" /\ record[q] \in table
         /\ LedgerStep(p) /\ pc'[p] = "send" /\ req[p].scanMode = "in"
         /\ student[p] = student[q] /\ req[p].eventId = req[q].eventId
         /\ record'[p].time_in = record[q].time_in )
       => table' = table]_vars

\* C7 (as claimed): no call stands between a read of its pair's record and
\* the write that depends on it while another call changes that record.
C7_NoReadThenWrite ==
  [][\A p \in Procs :
       (pc[p] = "fbWrite" /\ pc'[p] = "fbWrite") =>
         PairRows(table', p) = PairRows(table, p)]_vars

\* C8: a ledger step that does not return a row changes nothing in the table,
\* so a request answered with the 500 'Failed to record' error has written
\* nothing; a fallback write that did not go through is answered with that
\* error, and the success payload is only given after the ledger returned a row.
C8_FailureWritesNothing ==
  [][\A p \in Procs :
       /\ (pc[p] \in {"record", "fbSelect", "fbWrite"} /\ pc'[p] \notin {pc[p], "send"})
            => table' = table
       /\ (resp'[p] = "500_record" /\ resp[p] # "500_record")
            => pc[p] = "fbWrite" /\ table' = table
       /\ (pc[p] = "fbWrite" /\ pc'[p] # "fbWrite" /\ ~hist'[p].returned)
            => resp'[p] = "500_record"
       /\ (resp'[p] = "200_success" /\ pc[p] # "done")
            => hist[p].returned /\ record[p] # NoRow]_vars

\* C8 witness: the storage failed a request for a pair that has a record, the
\* request was answered 500 and the record is still there.
C8_Witness ==
  \E p \in Procs :
    /\ resp[p] = "500_record" /\ hist[p].fault /\ ~hist[p].noRecord
    /\ table # {}

\* C9 (as claimed): when the mail fails after a successful ledger call the
\* request answers success, the table is untouched, and the flag of the scan
\* mode is false on the pair's record.
C9_FailedMailLeavesFlagFalse ==
  [][\A p \in Procs :
       (pc[p] = "send" /\ pc'[p] = "done") =>
         /\ resp'[p] = "200_success"
         /\ table' = table
         /\ \A r \in PairRows(table', p) : ~Flag(r, req[p].scanMode)]_vars

\* C10: a mail is attempted only in a request whose recordTimeIn /
\* recordTimeOut has returned a row; a request answered with the ledger
\* error has attempted none.
C10_MailOnlyAfterLedger ==
  \A p \in Procs :
    /\ hist[p].attempts > 0 => hist[p].returned
    /\ pc[p] \in {"send", "mark"} => hist[p].returned /\ record[p] # NoRow
    /\ resp[p] = "500_record" => hist[p].attempts = 0

\* C10 witness: one request has sent its mail after its ledger call returned
\* while another was answered with the ledger error.
C10_Witness ==
  \E p, q \in Procs :
    /\ pc[p] = "mark" /\ hist[p].attempts > 0 /\ hist[p].returned
    /\ resp[q] = "500_record"

\* station p's request calls sendAttendanceConfirmation
SendStep(p) == pc[p] = "send" /\ pc'[p] # "send"

\* C11 (as claimed): a request sends the confirmation of its scan mode only
\* if email_sent_in (email_sent_out) of the row its ledger call returned is
\* false, so a confirmation marked as sent is not sent again.
C11_SendOnlyIfFlagFalse ==
  [][\A p \in Procs :
       SendStep(p) => ~Flag(record[p], req[p].scanMode)]_vars

\* station p's request returns from markEmailSent
MarkStep(p) == pc[p] = "mark" /\ pc'[p] = "done"

\* C12: when the mail was sent and the markEmailSent that follows it returned
\* without an error, then as the request ends the pair's record exists and
\* its flag for the request's scan mode is true.
C12_MarkedFlagIsTrue ==
  [][\A p \in Procs :
       (MarkStep(p) /\ hist'[p].marked) =>
         /\ resp'[p] = "200_success"
         /\ PairRows(table', p) # {}
         /\ \A r \in PairRows(table', p) : Flag(r, req[p].scanMode)]_vars

\* C12 witness: a time-out request has ended after a markEmailSent that went
\* through, and the record carries email_sent_out.
C12_Witness ==
  \E p \in Procs :
    /\ pc[p] = "done" /\ hist[p].marked /\ hist[p].mode = "out"
    /\ \E r \in table : r.email_sent_out /\ r.time_out # Null

C14_FailedMarkLeavesFlagFalse ==
  [][\A p \in Procs :
       (MarkStep(p) /\ ~hist'[p].marked) =>
         /\ resp'[p] = "200_success"
         /\ table' = table
         /\ \A r \in PairRows(table', p) : ~Flag(r, req[p].scanMode)]_vars

\* C15 (as claimed): the answer of a request whose mail failed differs from
\* the answer of a request whose mail was sent and marked.
C15_MailFailureVisible ==
  [][\A p \in Procs :
       (SendStep(p) /\ pc'[p] = "done") => resp'[p] # SuccessResponse(FALSE)]_vars

\* the ids of the students whose token is the code, and whether no two
\* students of a table share a token
Holders(tbl, code) == {r.id : r \in {x \in tbl : x.qr_code_data = code}}
TokensUnique(tbl) == \A a, b \in tbl : a.qr_code_data = b.qr_code_data => a = b

\* station p's request returns from getStudentByQRCode
ResolveStep(p) == pc[p] = "getStudent" /\ pc'[p] # "getStudent"

\* C16: for every scanned code and every students table with unique tokens,
\* an answered getStudentByQRCode returns the one student whose qr_code_data
\* is the code; with no such student it fails and the route answers 'Student
\* not found'; a student with another token is never returned.
C16_ResolveByToken ==
  [][\A p \in Procs :
       ResolveStep(p) =>
         LET code == req[p].qrCode
             h == Holders(students, code)
         IN  /\ pc'[p] = "getEvent" => student'[p] \in h
             /\ pc'[p] # "getEvent" => pc'[p] = "done" /\ resp'[p] = "404_student"
             /\ h = {} => resp'[p] = "404_student"
             /\ (TokensUnique(students) /\ h # {}) =>
                  getStudentByQRCode(students, code, TRUE) =
                    [data |-> CHOOSE id \in h : TRUE, error |-> FALSE]]_vars

\* C16 witness: after the administrator re-issued tokens (still unique), a
\* scan of the new token has been resolved to the student who holds it.
C16_Witness ==
  \E p \in Procs :
    /\ pc[p] = "getEvent" /\ req[p].qrCode = "qx"
    /\ TokensUnique(students) /\ Holders(students, "qx") = {student[p]}

\* C17 (as claimed): the NotFound answer is given only when the students
\* table was read and holds no student with the scanned code; a lookup that
\* failed is answered otherwise.
C17_NotFoundMeansAbsent ==
  [][\A p \in Procs :
       (ResolveStep(p) /\ resp'[p] = "404_student") =>
         Holders(students, req[p].qrCode) = {}]_vars

\* C18 (as claimed): when two or more students share the scanned code the
\* request ends with an answer that is not the NotFound answer, and it
\* records no attendance and sends no mail.
C18_AmbiguousIsDistinct ==
  [][\A p \in Procs :
       (ResolveStep(p) /\ Cardinality(Holders(students, req[p].qrCode)) >= 2) =>
         /\ pc'[p] = "done"
         /\ resp'[p] # "404_student"
         /\ table' = table
         /\ hist'[p].attempts = 0]_vars

\* C19 (as claimed): every request that was received eventually ends with an
\* answer, also when an external call is never answered.
C19_EveryRequestEnds ==
  \A p \in Procs :
    (pc[p] \notin {"idle", "done"}) ~> (pc[p] = "done" /\ resp[p] # "none")

\* C20: under every sequence of recordTimeIn, recordTimeOut and markEmailSent
\* steps a row that exists keeps existing, for the same pair, and a time_in
\* or time_out that is set stays set: no row is deleted, no timestamp cleared.
C20_LedgerNeverRegresses ==
  [][\A r \in table : \E r2 \in table' :
       /\ r2.id = r.id /\ r2.student_id = r.student_id /\ r2.event_id = r.event_id
       /\ r.time_in # Null => r2.time_in # Null
       /\ r.time_out # Null => r2.time_out # Null]_vars

\* C20 witness: a row with both timestamps, whose time-out mail was marked,
\* has been written once more by a ledger call and is still complete.
C20_Witness ==
  \E p \in Procs : \E r \in table :
    /\ pc[p] = "send" /\ record[p].id = r.id
    /\ r.time_in # Null /\ r.time_out # Null /\ r.email_sent_out

\* C21 (as claimed): in every state reached through createStudent,
\* updateStudent and deleteStudent no two students carry the same
\* qr_code_data, so a code is held by at most one student.
C21_TokensUnique ==
  /\ TokensUnique(students)
  /\ \A code \in Tokens : Cardinality(Holders(students, code)) <= 1

\* C22 (as claimed): the qr_code_data of every student is the value
\* createStudent assigned to it, in every state until the student is
\* deleted, whatever updateStudent was given.
C22_TokenImmutable ==
  \A r \in students : r.qr_code_data = r.issued

\* station p's request returns from getEventById
EventStep(p) == pc[p] = "getEvent" /\ pc'[p] # "getEvent"

\* C23: the student is resolved and the event looked up before anything is
\* recorded or sent.  A code no student holds and an event that does not
\* exist end the request; a request ended by either lookup is answered 404
\* and has changed no attendance record and no flag and attempted no mail.
C23_LookupsFirst ==
  [][\A p \in Procs :
       /\ (ResolveStep(p) \/ EventStep(p)) => hist[p] = NoHist /\ record[p] = NoRow
       /\ (ResolveStep(p) /\ Holders(students, req[p].qrCode) = {}) => pc'[p] = "done"
       /\ (EventStep(p) /\ req[p].eventId \notin EventIds) => pc'[p] = "done"
       /\ ((ResolveStep(p) \/ EventStep(p)) /\ pc'[p] = "done") =>
            /\ resp'[p] = (IF ResolveStep(p) THEN "404_student" ELSE "404_event")
            /\ table' = table
            /\ hist'[p] = NoHist]_vars

\* C23 witness: one request was ended by the student lookup and another by
\* the event lookup, and the attendance table is still empty.
C23_Witness ==
  \E p, q \in Procs :
    /\ resp[p] = "404_student" /\ resp[q] = "404_event"
    /\ hist[p] = NoHist /\ hist[q] = NoHist /\ table = {}

\* station p's handler receives a body (the only step that changes anything
\* of a station that is not in a request) / station p is in a request
ReceiveStep(p) ==
  /\ pc[p] \in {"idle", "done"}
  /\ <<pc[p], resp[p], hist[p]>> # <<pc'[p], resp'[p], hist'[p]>>
Running(p) == pc[p] \notin {"idle", "done"}

\* what every request with a bad body has in common, as claimed and as
\* amended: a body with a missing field is answered 400 at once, so a
\* running request has all three fields; a request whose scanMode is neither
\* 'in' nor 'out' never changes the attendance table and never reaches the
\* ledger call or the mail.
BadBodyWritesNothing(p) ==
  /\ (ReceiveStep(p) /\ pc'[p] = "done") =>
       resp'[p] = "400_missing" /\ table' = table /\ hist'[p] = NoHist
  /\ (ReceiveStep(p) /\ pc'[p] # "done") =>
       Missing \notin {req'[p].qrCode, req'[p].eventId, req'[p].scanMode}
  /\ (Running(p) /\ req[p].scanMode \notin {"in", "out"} /\ pc'[p] # pc[p]) =>
       table' = table /\ hist'[p] = NoHist /\ pc'[p] \in {"getEvent", "record", "done"}

\* C24 (as claimed): a request that lacks a field, or whose scanMode is neither
\* 'in' nor 'out', is answered 400 whatever its other fields are, and writes
\* no record, sets no flag and sends no mail.
C24_BadRequestIs400 ==
  [][\A p \in Procs :
       /\ BadBodyWritesNothing(p)
       /\ (Running(p) /\ req[p].scanMode \notin {"in", "out"} /\ pc'[p] = "done") =>
            resp'[p] = "400_mode"]_vars

\* C24 (amended): a request that lacks a field is answered 400 whatever its
\* other fields are; a request whose scanMode is neither 'in' nor 'out' is
\* answered 400 once its student and its event were found, and 404 when one
\* of the lookups failed first; neither writes a record, sets a flag or sends
\* a mail.
C24_BadRequestAfterLookups ==
  [][\A p \in Procs :
       /\ BadBodyWritesNothing(p)
       /\ (Running(p) /\ req[p].scanMode \notin {"in", "out"} /\ pc'[p] = "done") =>
            resp'[p] = (IF pc[p] = "getStudent" THEN "404_student"
                        ELSE IF pc[p] = "getEvent" THEN "404_event"
                        ELSE "400_mode")]_vars

\* C24 witness: one request was answered 400 for its scan mode, after both
\* lookups, and another for a missing field; nothing was written.
C24_Witness ==
  \E p, q \in Procs :
    /\ resp[p] = "400_mode" /\ resp[q] = "400_missing"
    /\ hist[p] = NoHist /\ hist[q] = NoHist /\ table = {}

\* C27 (as claimed): a flag is true only when a confirmation was sent after
\* the latest write of its timestamp.  Only markEmailSent sets a flag, so:
\* a markEmailSent that sets email_sent_in (email_sent_out) of a record does
\* so for a mail sent after the latest write of the record's time_in
\* (time_out), also when another request rewrote the timestamp and reset the
\* flag between this request's mail and its markEmailSent.
C27_FlagMeansMailAfterWrite ==
  [][\A p \in Procs :
       (MarkStep(p) /\ hist'[p].marked) => ~hist[p].overtaken]_vars

\* the fallback branch of a transition run on its own (select, then write)
\* with the storage answering, and the stored procedure, on the same table
FallbackAlone(tbl, s, e, m, t) ==
  LET existing == SelectExisting(tbl, s, e, TRUE) # NoRow
  IN  IF m = "in" THEN FallbackTimeIn(tbl, s, e, t, nextId, existing, TRUE).table
      ELSE FallbackTimeOut(tbl, s, e, t, nextId, existing, TRUE).table
ProcedureAlone(tbl, s, e, m, t) ==
  IF m = "in" THEN record_time_in(tbl, s, e, t, nextId).table
  ELSE record_time_out(tbl, s, e, t).table

\* C28 (as claimed): for every pair and every state of its record (none,
\* entered, exited, completed, any flags) the fallback branch of recordTimeIn
\* (recordTimeOut) leaves the table as record_time_in (record_time_out)
\* would when writing the same timestamp.
C28_FallbackEqualsProcedure ==
  \A k \in Pairs : \A m \in {"in", "out"} : \A t \in 1 .. MaxClock :
    FallbackAlone(table, k[1], k[2], m, t) = ProcedureAlone(table, k[1], k[2], m, t)

\* C29 (as claimed): with the storage answering every call of a request, its
\* recordTimeIn / recordTimeOut returns a record and the request ends in
\* success, whatever other requests for the pair run at the same time.
C29_NoFailureFromConcurrency ==
  \A p \in Procs :
    /\ resp[p] = "500_record" => hist[p].fault
    /\ (pc[p] = "done" /\ hist[p].mode \in {"in", "out"} /\ ~hist[p].fault) =>
         hist[p].returned /\ resp[p] = "200_success"

C26_QuietAfterDetection ==
  [][detections' > detections => ~quiet]_vars

\* the results of completed scans in a list, newest first
RealResults(list) == SelectSeq(list, LAMBDA x : x.kind # "processing")

====
